---- MODULE Spec2Model ----
(***************************************************************************)
(* Round-robin "Mus" tournament (src/main.py, src/models.py,               *)
(* src/database.py): the entity store (teams, matches), the schedule       *)
(* generator, the direct-score result engine and the ranking page.         *)
(*                                                                         *)
(* Every request handler runs on its own ORM session (database.py:18-23)   *)
(* and other requests see the store as of the handler's last db.commit().  *)
(* A handler with one commit is one action; generate_matches commits twice *)
(* (main.py:172 and main.py:179) and is one action per commit.  Requests   *)
(* of the other handlers are served between the two; one generate_matches  *)
(* request is in flight at a time.                                         *)
(***************************************************************************)
EXTENDS Integers, Sequences, FiniteSets, TLC

\* ---- bounds of the model ------------------------------------------------
MaxTeams == 3        \* distinct team names a client may submit; names are
                     \* only compared for equality (main.py:154), so the
                     \* k-th new name a client submits is written k
MaxMatchId == 4      \* match ids a client may put in the URL: 1..MaxMatchId
MaxGames == 4        \* game counts a client may submit: -1..MaxGames

\* ---- program constants --------------------------------------------------
WinGames == 3        \* main.py:223  "One team must have 3 wins"
MaxLoserGames == 2   \* main.py:223  "the other between 0-2"
\* MinTeams as an off-by-one test would have it: len(teams) < 1.
MinTeams_OffByOne == 2 - 1
MinTeams == 2        \* main.py:167  len(teams) < 2
NoTeam == 0          \* models.py:35 winner_id nullable: NULL

Names == 1..MaxTeams
MatchIds == 1..MaxMatchId
Games == (0 - 1)..MaxGames

\* models.py:8-11
PENDING == "pending"
IN_PROGRESS == "in_progress"
COMPLETED == "completed"
MatchStatus == {PENDING, IN_PROGRESS, COMPLETED}

\* models.py:31-37: the columns the ORM maps for Match.  team1_games_won and
\* team2_games_won are columns of the matches TABLE only (added by the
\* migration, main.py:386 and main.py:389, DEFAULT 0); the Match class
\* declares neither, so the session neither loads nor flushes them.
MappedColumns ==
    {"id", "team1_id", "team2_id", "status", "winner_id", "completed_at"}

\* All columns of a row of the matches table.
TableColumns == MappedColumns \cup {"team1_games_won", "team2_games_won"}

VARIABLES
    teams,      \* the teams table, in primary-key order: <<[id, name], ...>>
    matches,    \* the matches table, in primary-key order
    pc,         \* position of the generate_matches request in flight
    gen_teams,  \* the teams the latest generate_matches request read at
                \* main.py:166
    gen_old,    \* the matches the store held when the request in flight
                \* arrived
    last        \* the response of the request that finished last

vars == <<teams, matches, pc, gen_teams, gen_old, last>>

Response(op, code, detail) == [op |-> op, code |-> code, detail |-> detail]

\* ---- helpers ------------------------------------------------------------
RECURSIVE SeqSum(_)
SeqSum(s) == IF s = <<>> THEN 0 ELSE Head(s) + SeqSum(Tail(s))

\* MatchIndex with the filter on the id lost: .first() of the whole table.
MatchIndex_NoFilter(ms, match_id) ==
    IF ms = <<>> THEN 0 ELSE 1

\* db.query(Match).filter(Match.id == match_id).first()   (main.py:211, 245)
MatchIndex(ms, match_id) ==
    IF \E i \in 1..Len(ms) : ms[i].id = match_id
    THEN CHOOSE i \in 1..Len(ms) : ms[i].id = match_id
    ELSE 0

\* Primary key of the next inserted row (models.py:16, models.py:31) under
\* the default SQLite engine (database.py:7): one more than the largest id
\* in the table, 1 for an empty table.
NextId(rows) ==
    IF rows = <<>> THEN 1
    ELSE 1 + (CHOOSE k \in {rows[i].id : i \in 1..Len(rows)} :
                \A j \in 1..Len(rows) : rows[j].id <= k)

\* db.commit() of a loaded instance whose attributes were assigned: the
\* UPDATE carries the mapped columns only.
Flush(row, inst) ==
    [c \in TableColumns |-> IF c \in MappedColumns THEN inst[c] ELSE row[c]]

Init ==
    /\ teams = <<>>
    /\ matches = <<>>
    /\ pc = "idle"
    /\ gen_teams = <<>>
    /\ gen_old = <<>>
    /\ last = Response("startup", 200, "")

\* ---- POST /teams (main.py:146-161) --------------------------------------
create_team(name) ==
    /\ IF \E i \in 1..Len(teams) : teams[i].name = name
       THEN /\ last' = Response("create_team", 400, "Team name already exists")
            /\ UNCHANGED teams
       ELSE /\ teams' = Append(teams, [id |-> NextId(teams), name |-> name])
            /\ last' = Response("create_team", 303, "")
    /\ UNCHANGED <<matches, pc, gen_teams, gen_old>>

\* ---- POST /generate-matches (main.py:164-180) ---------------------------
\* Match(team1_id=..., team2_id=...) as INSERTed (main.py:176): status takes
\* the column default (models.py:34), winner_id and completed_at are NULL
\* (models.py:35, models.py:37), the two counters take the table's DEFAULT 0
\* (main.py:386, main.py:389).
NewMatch(id, team1_id, team2_id) ==
    [id |-> id, team1_id |-> team1_id, team2_id |-> team2_id,
     status |-> PENDING, winner_id |-> NoTeam, completed_at |-> "null",
     team1_games_won |-> 0, team2_games_won |-> 0]

\* Combinations as itertools.permutations(teams, 2) would pair the teams:
\* every ordered pair of two different teams.
Combinations_Ordered(ts) ==
    LET n == Len(ts)
        pair(k) == LET i == ((k - 1) \div (n - 1)) + 1
                       r == ((k - 1) % (n - 1)) + 1
                       j == IF r < i THEN r ELSE r + 1
                   IN <<ts[i], ts[j]>>
    IN IF n < 2 THEN <<>> ELSE [k \in 1..(n * (n - 1)) |-> pair(k)]

\* itertools.combinations(teams, 2) (main.py:175): the pairs <<ts[i], ts[j]>>
\* with i < j, in lexicographic order of (i, j).
RECURSIVE Combinations(_)
Combinations(ts) ==
    IF Len(ts) < 2 THEN <<>>
    ELSE [k \in 1..(Len(ts) - 1) |-> <<Head(ts), Tail(ts)[k]>>]
         \o Combinations(Tail(ts))

\* The loop of main.py:175-177 followed by the commit of main.py:179.
RECURSIVE InsertMatches(_, _)
InsertMatches(rows, pairs) ==
    IF pairs = <<>> THEN rows
    ELSE InsertMatches(
            Append(rows, NewMatch(NextId(rows), Head(pairs)[1].id, Head(pairs)[2].id)),
            Tail(pairs))

\* main.py:166-168: fewer than two teams, nothing is touched.
generate_matches_reject ==
    /\ pc = "idle"
    /\ Len(teams) < MinTeams
    /\ last' = Response("generate_matches", 400, "Need at least 2 teams")
    /\ UNCHANGED <<teams, matches, pc, gen_teams, gen_old>>

\* main.py:166-172: read the teams, delete every match, commit.
generate_matches_clear ==
    /\ pc = "idle"
    /\ Len(teams) >= MinTeams
    /\ gen_teams' = teams
    /\ gen_old' = matches
    /\ matches' = <<>>
    /\ pc' = "cleared"
    /\ UNCHANGED <<teams, last>>

\* main.py:174-180: insert one match per pair of the teams read, commit.
generate_matches_insert ==
    /\ pc = "cleared"
    /\ matches' = InsertMatches(matches, Combinations(gen_teams))
    /\ pc' = "idle"
    /\ gen_old' = <<>>
    /\ last' = Response("generate_matches", 303, "")
    /\ UNCHANGED <<teams, gen_teams>>

\* main.py:175-179 raising (the store refuses an INSERT or the commit): the
\* session is closed (database.py:21-23); the delete committed at main.py:172
\* stays.
generate_matches_abort ==
    /\ pc = "cleared"
    /\ pc' = "idle"
    /\ gen_old' = <<>>
    /\ last' = Response("generate_matches", 500, "StoreError")
    /\ UNCHANGED <<teams, matches, gen_teams>>

\* ---- POST /matches/{match_id}/set-result (main.py:204-235) --------------
\* SetResultError as a "race to at least 3" check: the loser's range and the
\* winner's exact count are not tested.
SetResultError_AtLeast3(team1_games, team2_games) ==
    IF team1_games < 0 \/ team2_games < 0
    THEN "Games won cannot be negative"
    ELSE IF team1_games = team2_games
    THEN "Cannot have a tie"
    ELSE IF ~ (team1_games >= WinGames \/ team2_games >= WinGames)
    THEN "One team must win 3 games, the other 0-2"
    ELSE ""

\* main.py:215-225: the detail of the HTTPException raised, "" when the
\* result passes validation.
SetResultError(team1_games, team2_games) ==
    IF team1_games < 0 \/ team2_games < 0
    THEN "Games won cannot be negative"
    ELSE IF team1_games = team2_games
    THEN "Cannot have a tie"
    ELSE IF ~ (\/ (team1_games = WinGames /\ 0 <= team2_games
                                          /\ team2_games <= MaxLoserGames)
               \/ (team2_games = WinGames /\ 0 <= team1_games
                                          /\ team1_games <= MaxLoserGames))
    THEN "One team must win 3 games, the other 0-2"
    ELSE ""

\* SetResultUpdate with the status the per-game recording gives a match that
\* has games but no decision: IN_PROGRESS, winner cleared.
SetResultUpdate_InProgress(match, team1_games, team2_games) ==
    [match EXCEPT
        !.team1_games_won = team1_games,
        !.team2_games_won = team2_games,
        !.status = IN_PROGRESS,
        !.winner_id = NoTeam,
        !.completed_at = "null"]

\* main.py:227-232: the attributes assigned on the loaded instance.
SetResultUpdate(match, team1_games, team2_games) ==
    [match EXCEPT
        !.team1_games_won = team1_games,
        !.team2_games_won = team2_games,
        !.status = COMPLETED,
        !.winner_id = IF team1_games = WinGames
                      THEN match.team1_id ELSE match.team2_id,
        !.completed_at = "now"]

\* The response and the matches table after the handler.
SetResultOutcome(ms, match_id, team1_games, team2_games) ==
    LET i == MatchIndex(ms, match_id)
        error == SetResultError(team1_games, team2_games)
    IN IF i = 0
       THEN [code |-> 404, detail |-> "Match not found", matches |-> ms]
       ELSE IF error # ""
       THEN [code |-> 400, detail |-> error, matches |-> ms]
       ELSE [code |-> 303, detail |-> "",
             matches |-> [ms EXCEPT ![i] =
                 Flush(ms[i], SetResultUpdate(ms[i], team1_games, team2_games))]]

set_match_result(match_id, team1_games, team2_games) ==
    LET out == SetResultOutcome(matches, match_id, team1_games, team2_games) IN
    /\ matches' = out.matches
    /\ last' = Response("set_match_result", out.code, out.detail)
    /\ UNCHANGED <<teams, pc, gen_teams, gen_old>>

\* ---- POST /matches/{match_id}/edit-result (main.py:238-268) -------------
\* main.py:249-258
EditResultError(team1_games, team2_games) ==
    IF team1_games < 0 \/ team2_games < 0
    THEN "Games won cannot be negative"
    ELSE IF team1_games = team2_games
    THEN "Cannot have a tie"
    ELSE IF ~ (\/ (team1_games = WinGames /\ 0 <= team2_games
                                          /\ team2_games <= MaxLoserGames)
               \/ (team2_games = WinGames /\ 0 <= team1_games
                                          /\ team1_games <= MaxLoserGames))
    THEN "One team must win 3 games, the other 0-2"
    ELSE ""

\* EditResultUpdate as a diff against the stored result: a match that is
\* already COMPLETED keeps its status, winner and completion time.
EditResultUpdate_KeepWinner(match, team1_games, team2_games) ==
    IF match.status = COMPLETED
    THEN [match EXCEPT
            !.team1_games_won = team1_games,
            !.team2_games_won = team2_games]
    ELSE [match EXCEPT
            !.team1_games_won = team1_games,
            !.team2_games_won = team2_games,
            !.status = COMPLETED,
            !.winner_id = IF team1_games = WinGames
                          THEN match.team1_id ELSE match.team2_id,
            !.completed_at = "now"]

\* main.py:260-265
EditResultUpdate(match, team1_games, team2_games) ==
    [match EXCEPT
        !.team1_games_won = team1_games,
        !.team2_games_won = team2_games,
        !.status = COMPLETED,
        !.winner_id = IF team1_games = WinGames
                      THEN match.team1_id ELSE match.team2_id,
        !.completed_at = "now"]

EditResultOutcome(ms, match_id, team1_games, team2_games) ==
    LET i == MatchIndex(ms, match_id)
        error == EditResultError(team1_games, team2_games)
    IN IF i = 0
       THEN [code |-> 404, detail |-> "Match not found", matches |-> ms]
       ELSE IF error # ""
       THEN [code |-> 400, detail |-> error, matches |-> ms]
       ELSE [code |-> 303, detail |-> "",
             matches |-> [ms EXCEPT ![i] =
                 Flush(ms[i], EditResultUpdate(ms[i], team1_games, team2_games))]]

edit_match_result(match_id, team1_games, team2_games) ==
    LET out == EditResultOutcome(matches, match_id, team1_games, team2_games) IN
    /\ matches' = out.matches
    /\ last' = Response("edit_match_result", out.code, out.detail)
    /\ UNCHANGED <<teams, pc, gen_teams, gen_old>>

\* ---- GET /ranking (main.py:406-468) --------------------------------------
\* getattr(match, column) on an instance a session loaded: a mapped column
\* yields the row's value, any other name raises AttributeError.
HasColumn(column) == column \in MappedColumns

\* Match.status == COMPLETED rows where the team is team1 / team2 / winner.
CompletedAsTeam1(ms, team_id) ==
    SelectSeq(ms, LAMBDA m : m.team1_id = team_id /\ m.status = COMPLETED)

CompletedAsTeam2(ms, team_id) ==
    SelectSeq(ms, LAMBDA m : m.team2_id = team_id /\ m.status = COMPLETED)

VacasGanadas(ms, team_id) ==
    Len(SelectSeq(ms, LAMBDA m : m.winner_id = team_id /\ m.status = COMPLETED))

\* main.py:429-431 and main.py:438-440 read both counters of every completed
\* match the team is in.
RowRaises(ms, team_id) ==
    /\ CompletedAsTeam1(ms, team_id) \o CompletedAsTeam2(ms, team_id) # <<>>
    /\ ~ (HasColumn("team1_games_won") /\ HasColumn("team2_games_won"))

\* f"{enfrentamientos_jugados}/{enfrentamientos_totales}"   (main.py:456)
Enfrentamientos(jugados, totales) == <<jugados, "/", totales>>

\* The dict appended at main.py:452-457 for one team.
RankingRow(ms, team) ==
    LET as1 == CompletedAsTeam1(ms, team.id)
        as2 == CompletedAsTeam2(ms, team.id)
        partidas_ganadas ==
            SeqSum([k \in 1..Len(as1) |-> as1[k].team1_games_won])
            + SeqSum([k \in 1..Len(as2) |-> as2[k].team2_games_won])
        partidas_perdidas ==
            SeqSum([k \in 1..Len(as1) |-> as1[k].team2_games_won])
            + SeqSum([k \in 1..Len(as2) |-> as2[k].team1_games_won])
        jugados == Len(SelectSeq(ms, LAMBDA m :
                        (m.team1_id = team.id \/ m.team2_id = team.id)
                        /\ m.status = COMPLETED))
        totales == Len(SelectSeq(ms, LAMBDA m :
                        m.team1_id = team.id \/ m.team2_id = team.id))
    IN [team |-> team.id,
        vacas_ganadas |-> VacasGanadas(ms, team.id),
        diferencia_partidas |-> partidas_ganadas - partidas_perdidas,
        enfrentamientos |-> Enfrentamientos(jugados, totales)]

\* key=lambda x: (x["vacas_ganadas"], x["diferencia_partidas"]), compared as
\* Python compares tuples (main.py:461).
KeyLess(x, y) ==
    \/ x.vacas_ganadas < y.vacas_ganadas
    \/ /\ x.vacas_ganadas = y.vacas_ganadas
       /\ x.diferencia_partidas < y.diferencia_partidas

\* One step of the stable descending sort: x goes before the first row whose
\* key is smaller than x's, after every row whose key is equal or larger.
InsertRow(sorted, x) ==
    LET smaller == {k \in 1..Len(sorted) : KeyLess(sorted[k], x)}
        pos == IF smaller = {} THEN Len(sorted) + 1
               ELSE CHOOSE k \in smaller : \A j \in smaller : k <= j
    IN SubSeq(sorted, 1, pos - 1) \o <<x>> \o SubSeq(sorted, pos, Len(sorted))

\* ranking_data.sort(key=..., reverse=True)   (main.py:460-463): list.sort is
\* stable and stays stable under reverse=True.
RECURSIVE SortRanking(_, _)
SortRanking(sorted, rows) ==
    IF rows = <<>> THEN sorted
    ELSE SortRanking(InsertRow(sorted, Head(rows)), Tail(rows))

\* The response of GET /ranking over the store (ts, ms).
RankingOutcome(ts, ms) ==
    IF \E k \in 1..Len(ts) : RowRaises(ms, ts[k].id)
    THEN [code |-> 500, detail |-> "AttributeError", rows |-> <<>>]
    ELSE [code |-> 200, detail |-> "",
          rows |-> SortRanking(<<>>, [k \in 1..Len(ts) |-> RankingRow(ms, ts[k])])]

ranking_page ==
    LET out == RankingOutcome(teams, matches) IN
    /\ last' = Response("ranking_page", out.code, out.detail)
    /\ UNCHANGED <<teams, matches, pc, gen_teams, gen_old>>

\* ---- GET /matches (main.py:183-189) -------------------------------------
matches_page ==
    /\ last' = Response("matches_page", 200, "")
    /\ UNCHANGED <<teams, matches, pc, gen_teams, gen_old>>

Next ==
    \/ \E name \in Names : name <= Len(teams) + 1 /\ create_team(name)
    \/ generate_matches_reject
    \/ generate_matches_clear
    \/ generate_matches_insert
    \/ generate_matches_abort
    \/ \E id \in MatchIds, a \in Games, b \in Games : set_match_result(id, a, b)
    \/ \E id \in MatchIds, a \in Games, b \in Games : edit_match_result(id, a, b)
    \/ matches_page
    \/ ranking_page

Spec == Init /\ [][Next]_vars

\* ==== the claims ========================================================
\* "exactly one of the two counts equals 3 and the other is in 0..2"
ValidResult(a, b) ==
    \/ (a = 3 /\ b \in 0..2)
    \/ (b = 3 /\ a \in 0..2)

MatchExists(match_id) == \E k \in 1..Len(matches) : matches[k].id = match_id

\* C1: set_result on an existing match succeeds (303) exactly when one count
\* is 3 and the other is in 0..2; every other pair of counts is answered 400
\* and leaves every row of the matches table (counters, status, winner,
\* completion time) as it was.
C1_SetResultValidation ==
    \A match_id \in MatchIds, a \in Games, b \in Games :
        MatchExists(match_id) =>
            LET out == SetResultOutcome(matches, match_id, a, b) IN
            /\ (out.code = 303) <=> ValidResult(a, b)
            /\ ~ ValidResult(a, b) => (out.code = 400 /\ out.matches = matches)

\* A set_result rejected by the first-to-3 rule while the store holds a
\* recorded result.
C1_Witness ==
    /\ last.op = "set_match_result"
    /\ last.code = 400
    /\ last.detail = "One team must win 3 games, the other 0-2"
    /\ \E k \in 1..Len(matches) : matches[k].status = COMPLETED

\* C2: a successful set_result(match, a, b) leaves the match with
\* team1_games_won = a, team2_games_won = b, status COMPLETED and winner team1
\* if a = 3, else team2, whatever it held before; repeating the call changes
\* nothing further.
C2_FullOverwrite ==
    \A match_id \in MatchIds, a \in Games, b \in Games :
        (MatchExists(match_id) /\ ValidResult(a, b)) =>
            LET out == SetResultOutcome(matches, match_id, a, b)
                k == CHOOSE k \in 1..Len(matches) : matches[k].id = match_id
                row == out.matches[k]
            IN /\ row.team1_games_won = a
               /\ row.team2_games_won = b
               /\ row.status = COMPLETED
               /\ row.winner_id = IF a = 3 THEN row.team1_id ELSE row.team2_id
               /\ SetResultOutcome(out.matches, match_id, a, b).matches = out.matches

\* C3: every COMPLETED match has a winner that is its team1 or team2, the
\* winner's count is 3, the loser's is in 0..2; every other match has no
\* winner.
C3_CompletedInvariant ==
    \A k \in 1..Len(matches) :
        LET m == matches[k] IN
        IF m.status = COMPLETED
        THEN \/ /\ m.winner_id = m.team1_id
                /\ m.team1_games_won = 3
                /\ m.team2_games_won \in 0..2
             \/ /\ m.winner_id = m.team2_id
                /\ m.team2_games_won = 3
                /\ m.team1_games_won \in 0..2
        ELSE m.winner_id = NoTeam

C5_AtomicSchedule ==
    pc = "cleared" => matches = gen_old

\* C6: with fewer than 2 teams a generate_schedule request is never accepted:
\* it is answered 400 "Need at least 2 teams" and the teams and matches are
\* left as they were.
C6_TooFewTeamsRejected ==
    [][(pc = "idle" /\ Len(teams) < 2) =>
          /\ pc' = "idle"
          /\ last'.op = "generate_matches" =>
                /\ last'.code = 400
                /\ last'.detail = "Need at least 2 teams"
                /\ teams' = teams
                /\ matches' = matches]_vars

\* A generate_schedule rejected with exactly one team in the store.
C6_Witness ==
    /\ last.op = "generate_matches"
    /\ last.code = 400
    /\ Len(teams) = 1

\* C7: set_result and edit_result with an id that resolves to no match are
\* answered 404 whatever the counts are, and leave the matches table as it
\* was.
C7_UnknownMatch ==
    \A match_id \in MatchIds, a \in Games, b \in Games :
        ~ MatchExists(match_id) =>
            LET s == SetResultOutcome(matches, match_id, a, b)
                e == EditResultOutcome(matches, match_id, a, b)
            IN /\ s.code = 404 /\ s.matches = matches
               /\ e.code = 404 /\ e.matches = matches

\* An edit_result answered 404 while the store holds a recorded result.
C7_Witness ==
    /\ last.op = "edit_match_result"
    /\ last.code = 404
    /\ \E k \in 1..Len(matches) : matches[k].status = COMPLETED

\* Wins and game difference of a team as the claims define them.
WinsOf(team_id) ==
    Cardinality({k \in 1..Len(matches) :
        matches[k].status = COMPLETED /\ matches[k].winner_id = team_id})

RECURSIVE GameDiffOf(_, _)
GameDiffOf(team_id, k) ==
    IF k = 0 THEN 0
    ELSE GameDiffOf(team_id, k - 1)
         + (IF matches[k].status # COMPLETED THEN 0
            ELSE IF matches[k].team1_id = team_id
            THEN matches[k].team1_games_won - matches[k].team2_games_won
            ELSE IF matches[k].team2_id = team_id
            THEN matches[k].team2_games_won - matches[k].team1_games_won
            ELSE 0)

\* C8: in every reachable state compute_ranking returns exactly one row per
\* team of the store, with wins = the number of COMPLETED matches the team
\* won; a team in no match has wins 0, game_diff 0 and played/total 0/0.
C8_RankingRows ==
    LET out == RankingOutcome(teams, matches) IN
    /\ out.code = 200
    /\ Len(out.rows) = Len(teams)
    /\ \A t \in 1..Len(teams) :
          \E r \in 1..Len(out.rows) :
              /\ out.rows[r].team = teams[t].id
              /\ out.rows[r].vacas_ganadas = WinsOf(teams[t].id)
              /\ (\A k \in 1..Len(matches) :
                      /\ matches[k].team1_id # teams[t].id
                      /\ matches[k].team2_id # teams[t].id)
                  => /\ out.rows[r].vacas_ganadas = 0
                     /\ out.rows[r].diferencia_partidas = 0
                     /\ out.rows[r].enfrentamientos = <<0, "/", 0>>

\* C9: the game_diff compute_ranking reports for a team is its own won-game
\* counters minus its opponents', summed over the COMPLETED matches it is in.
C9_GameDiff ==
    LET out == RankingOutcome(teams, matches) IN
    \A t \in 1..Len(teams) :
        \E r \in 1..Len(out.rows) :
            /\ out.rows[r].team = teams[t].id
            /\ out.rows[r].diferencia_partidas = GameDiffOf(teams[t].id, Len(matches))

\* C10: the rows compute_ranking returns are in descending order of
\* (wins, game_diff), and teams equal on both keys keep the order of the team
\* list, for every set of teams and results.
C10_RankingOrder ==
    LET out == RankingOutcome(teams, matches)
        pos(team_id) == CHOOSE t \in 1..Len(teams) : teams[t].id = team_id
    IN /\ {out.rows[r].team : r \in 1..Len(out.rows)}
            = {teams[t].id : t \in 1..Len(teams)}
       /\ \A r \in 1..Len(out.rows), q \in 1..Len(out.rows) :
            r < q =>
                LET x == out.rows[r]
                    y == out.rows[q]
                IN \/ x.vacas_ganadas > y.vacas_ganadas
                   \/ /\ x.vacas_ganadas = y.vacas_ganadas
                      /\ x.diferencia_partidas > y.diferencia_partidas
                   \/ /\ x.vacas_ganadas = y.vacas_ganadas
                      /\ x.diferencia_partidas = y.diferencia_partidas
                      /\ pos(x.team) < pos(y.team)

\* C11: edit_result is set_result: in every store, for every id and pair of
\* counts, both answer with the same status code (same error kind) or both
\* succeed, and they leave the same matches table; the row a successful edit
\* leaves is the row the same call leaves on that match when it is PENDING,
\* whatever result was stored before.
C11_EditIsSet ==
    \A match_id \in MatchIds, a \in Games, b \in Games :
        LET s == SetResultOutcome(matches, match_id, a, b)
            e == EditResultOutcome(matches, match_id, a, b)
        IN /\ e.code = s.code
           /\ e.matches = s.matches
           /\ (MatchExists(match_id) /\ e.code = 303) =>
                LET k == CHOOSE k \in 1..Len(matches) : matches[k].id = match_id
                    fresh == NewMatch(matches[k].id, matches[k].team1_id,
                                      matches[k].team2_id)
                    clean == [matches EXCEPT ![k] = fresh]
                IN e.matches[k]
                     = SetResultOutcome(clean, match_id, a, b).matches[k]

\* An edit_result accepted, leaving a match won by its team2.
C11_Witness ==
    /\ last.op = "edit_match_result"
    /\ last.code = 303
    /\ \E k \in 1..Len(matches) :
          /\ matches[k].status = COMPLETED
          /\ matches[k].winner_id = matches[k].team2_id

\* C12: no match is ever IN_PROGRESS, and a COMPLETED match stays a COMPLETED
\* match with a winner through every step (accepted or rejected set_result
\* and edit_result included) except the delete of generate_schedule.
C12_StatusForward ==
    [][/\ \A k \in 1..Len(matches') : matches'[k].status # IN_PROGRESS
       /\ \A k \in 1..Len(matches) :
            matches[k].status = COMPLETED =>
                \/ pc = "idle" /\ pc' = "cleared"
                \/ /\ k <= Len(matches')
                   /\ matches'[k].id = matches[k].id
                   /\ matches'[k].status = COMPLETED
                   /\ matches'[k].winner_id
                        \in {matches[k].team1_id, matches[k].team2_id}]_vars

\* A rejected edit_result in a store whose three matches are all COMPLETED.
C12_Witness ==
    /\ last.op = "edit_match_result"
    /\ last.code = 400
    /\ Len(matches) = 3
    /\ \A k \in 1..Len(matches) : matches[k].status = COMPLETED
====
